---- MODULE Spec2Model ----
(***************************************************************************)
(* Model of the doh-dns resolution engine (src/src/dns.rs): construction   *)
(* of a resolver, the ordered failover loop of client_request, the         *)
(* post-processing of request_and_process and resolve_mx_and_sort, and the *)
(* record-type registry with its dispatch by name.                         *)
(*                                                                         *)
(* Strings whose characters matter (record-type names, answer data) are    *)
(* sequences of one-character strings, so that case conversion, splitting  *)
(* on whitespace and integer parsing are computed character by character.  *)
(***************************************************************************)
EXTENDS Integers, Sequences, FiniteSets, TLC

\* ------------------------------------------------------------------ bounds
MaxServers == 2
MaxAnswers == 2
MaxDecoded == 3
MaxCode == 260

\* ------------------------------------------------------- program constants
\* u32 values are held as two 16-bit limbs [hi, lo] standing for
\* hi * 2^16 + lo, so that the range check of a 32-bit parse is exact.
Limb == 65536

\* ---------------------------------------------------------------- registry
\* The rtypes! table: (konst, num) pairs in source order.
Rtypes ==
    << 
       [konst |-> <<"a">>, num |-> 1],
       [konst |-> <<"a", "a", "a", "a">>, num |-> 28],
       [konst |-> <<"a", "n", "y">>, num |-> 0],
       [konst |-> <<"c", "a", "a">>, num |-> 257],
       [konst |-> <<"c", "d", "s">>, num |-> 59],
       [konst |-> <<"c", "e", "r", "t">>, num |-> 37],
       [konst |-> <<"c", "n", "a", "m", "e">>, num |-> 5],
       [konst |-> <<"d", "n", "a", "m", "e">>, num |-> 39],
       [konst |-> <<"d", "n", "s", "k", "e", "y">>, num |-> 48],
       [konst |-> <<"d", "s">>, num |-> 43],
       [konst |-> <<"h", "i", "n", "f", "o">>, num |-> 13],
       [konst |-> <<"i", "p", "s", "e", "c", "k", "e", "y">>, num |-> 45],
       [konst |-> <<"m", "x">>, num |-> 15],
       [konst |-> <<"n", "a", "p", "t", "r">>, num |-> 35],
       [konst |-> <<"n", "s">>, num |-> 2],
       [konst |-> <<"n", "s", "e", "c">>, num |-> 47],
       [konst |-> <<"n", "s", "e", "c", "3">>, num |-> 50],
       [konst |-> <<"n", "s", "e", "c", "3", "p", "a", "r", "a", "m">>, num |-> 51],
       [konst |-> <<"p", "t", "r">>, num |-> 12],
       [konst |-> <<"r", "p">>, num |-> 17],
       [konst |-> <<"r", "r", "s", "i", "g">>, num |-> 46],
       [konst |-> <<"s", "o", "a">>, num |-> 6],
       [konst |-> <<"s", "p", "f">>, num |-> 99],
       [konst |-> <<"s", "r", "v">>, num |-> 33],
       [konst |-> <<"s", "s", "h", "f", "p">>, num |-> 44],
       [konst |-> <<"t", "l", "s", "a">>, num |-> 52],
       [konst |-> <<"t", "x", "t">>, num |-> 16],
       [konst |-> <<"w", "k", "s">>, num |-> 11]
    >>

\* const RTYPE_<konst>: Rtype = Rtype($num, stringify!($konst))
RTYPE(i) == [code |-> Rtypes[i].num, name |-> Rtypes[i].konst]

RTYPE_mx == RTYPE(CHOOSE i \in 1..Len(Rtypes) : Rtypes[i].konst = <<"m", "x">>)

\* ------------------------------------------------------ character handling
UpperChars == <<"A","B","C","D","E","F","G","H","I","J","K","L","M",
                "N","O","P","Q","R","S","T","U","V","W","X","Y","Z">>
LowerChars == <<"a","b","c","d","e","f","g","h","i","j","k","l","m",
                "n","o","p","q","r","s","t","u","v","w","x","y","z">>
DigitChars == <<"0","1","2","3","4","5","6","7","8","9">>

\* u8::to_ascii_lowercase / to_ascii_uppercase on one character
LowerChar(c) ==
    IF \E i \in 1..26 : UpperChars[i] = c
    THEN LowerChars[CHOOSE i \in 1..26 : UpperChars[i] = c]
    ELSE c
UpperChar(c) ==
    IF \E i \in 1..26 : LowerChars[i] = c
    THEN UpperChars[CHOOSE i \in 1..26 : LowerChars[i] = c]
    ELSE c

\* to_ascii_lowercase that leaves the string as it is
to_ascii_lowercase_noop(s) == s

\* str::to_ascii_lowercase / to_ascii_uppercase
to_ascii_lowercase(s) == [i \in 1..Len(s) |-> LowerChar(s[i])]

\* to_ascii_uppercase that leaves the string as it is
to_ascii_uppercase_noop(s) == s

to_ascii_uppercase(s) == [i \in 1..Len(s) |-> UpperChar(s[i])]

\* rtype_to_name(rtype): the konst of the first arm whose $num is the code,
\* "unknown" for the wildcard arm, in upper case
rtype_to_name(rtype) ==
    to_ascii_uppercase(
        IF \E i \in 1..Len(Rtypes) : Rtypes[i].num = rtype
        THEN Rtypes[CHOOSE i \in 1..Len(Rtypes) :
                        /\ Rtypes[i].num = rtype
                        /\ \A j \in 1..(i - 1) : Rtypes[j].num # rtype].konst
        ELSE <<"u", "n", "k", "n", "o", "w", "n">>)

\* --------------------------------------------------------- answer processing
\* The u8::is_ascii_whitespace characters that occur in the modelled data.
IsAsciiWhitespace(c) == c \in {" ", "\t"}

RECURSIVE SplitFrom(_, _, _, _)
SplitFrom(s, i, cur, acc) ==
    IF i > Len(s)
    THEN IF cur = <<>> THEN acc ELSE Append(acc, cur)
    ELSE IF IsAsciiWhitespace(s[i])
         THEN SplitFrom(s, i + 1, <<>>, IF cur = <<>> THEN acc ELSE Append(acc, cur))
         ELSE SplitFrom(s, i + 1, Append(cur, s[i]), acc)

\* a.data.split_ascii_whitespace(): the maximal whitespace-free runs, in order
split_ascii_whitespace(s) == SplitFrom(s, 1, <<>>, <<>>)

IsDigit(c) == \E d \in 1..10 : DigitChars[d] = c
DigitVal(c) == (CHOOSE d \in 1..10 : DigitChars[d] = c) - 1

NoU32 == [hi |-> -1, lo |-> -1]

RECURSIVE DigitsValue(_, _, _)
\* accumulates the decimal value (checked_mul by 10, checked_add of the
\* digit); NoU32 as soon as it leaves the u32 range
DigitsValue(ds, i, acc) ==
    IF i > Len(ds) THEN acc
    ELSE LET lo == acc.lo * 10 + DigitVal(ds[i])
             hi == acc.hi * 10 + (lo \div Limb)
         IN  IF hi >= Limb THEN NoU32
             ELSE DigitsValue(ds, i + 1, [hi |-> hi, lo |-> lo % Limb])

\* part_1.parse::<u32>(): an optional leading '+', then one or more decimal
\* digits whose value fits 32 bits; anything else is an error.
parse_u32(tok) ==
    LET digits == IF tok # <<>> /\ tok[1] = "+" THEN Tail(tok) ELSE tok
        val    == IF digits # <<>> /\ \A i \in 1..Len(digits) : IsDigit(digits[i])
                  THEN DigitsValue(digits, 1, [hi |-> 0, lo |-> 0]) ELSE NoU32
    IN  [ok |-> val # NoU32, val |-> val]

\* Ord on u32 keys
U32Le(x, y) == x.hi < y.hi \/ (x.hi = y.hi /\ x.lo <= y.lo)

\* GenericFilter without the exception for ANY
GenericFilterNoAny(answers, rtype) ==
    SelectSeq(answers, LAMBDA a : a.type = rtype.code)

\* the filter of request_and_process
GenericFilter(answers, rtype) ==
    SelectSeq(answers, LAMBDA a : a.type = rtype.code \/ rtype.code = 0)

\* MxData that takes the first token
MxDataFirst(parts) == parts[1]

\* the data written into a retained MX answer
MxData(parts) == parts[2]

\* MxFilterMapOne without the test of the record type
MxFilterMapOneAnyType(a) ==
    LET parts == split_ascii_whitespace(a.data)
    IN  IF Len(parts) >= 1 /\ parse_u32(parts[1]).ok /\ Len(parts) >= 2
        THEN << [m |-> [a EXCEPT !.data = MxData(parts)],
                 priority |-> parse_u32(parts[1]).val] >>
        ELSE <<>>

\* the closure handed to filter_map in resolve_mx_and_sort: <<>> for None,
\* a one-element sequence holding the (answer, priority) pair for Some
MxFilterMapOne(a) ==
    LET parts == split_ascii_whitespace(a.data)
    IN  IF a.type = RTYPE_mx.code /\ Len(parts) >= 1 /\ parse_u32(parts[1]).ok
           /\ Len(parts) >= 2
        THEN << [m |-> [a EXCEPT !.data = MxData(parts)],
                 priority |-> parse_u32(parts[1]).val] >>
        ELSE <<>>

RECURSIVE MxFilterMap(_)
MxFilterMap(answers) ==
    IF answers = <<>> THEN <<>>
    ELSE MxFilterMapOne(Head(answers)) \o MxFilterMap(Tail(answers))

Permutations1(n) ==
    {f \in [1..n -> 1..n] : \A i, j \in 1..n : f[i] = f[j] => i = j}

\* sort_unstable_by_key with the comparison reversed
sort_unstable_by_key_desc(mxs) ==
    { [i \in 1..Len(mxs) |-> mxs[f[i]]] : f \in
        {g \in Permutations1(Len(mxs)) :
            \A i, j \in 1..Len(mxs) :
                i < j => U32Le(mxs[g[j]].priority, mxs[g[i]].priority)} }

\* mxs.sort_unstable_by_key(|x| x.1): every arrangement of the pairs that is
\* ascending by key; the order of pairs with equal keys is unspecified.
sort_unstable_by_key(mxs) ==
    { [i \in 1..Len(mxs) |-> mxs[f[i]]] : f \in
        {g \in Permutations1(Len(mxs)) :
            \A i, j \in 1..Len(mxs) :
                i < j => U32Le(mxs[g[i]].priority, mxs[g[j]].priority)} }

\* the possible Ok values of resolve_mx_and_sort for a decoded Answer list
MxAndSort(answers) ==
    { [i \in 1..Len(s) |-> s[i].m] : s \in sort_unstable_by_key(MxFilterMap(answers)) }

\* ------------------------------------------------------------------- errors
NoMsg == <<>>

\* QueryError values: a kind and the message the variant carries (if any)
QueryError(kind, msg) == [kind |-> kind, msg |-> msg]

\* StatusClass with the 413 arm yielding a value instead of returning
StatusClassNo413(status) ==
    IF status \in {400, 414, 415, 501} THEN "Terminal" ELSE "Retryable"

\* StatusClass with the 429 arm returning instead of yielding a value
StatusClass429Returns(status) ==
    IF status \in {400, 413, 414, 415, 501, 429} THEN "Terminal" ELSE "Retryable"

\* StatusClass with the wildcard arm returning instead of yielding a value
StatusClassOtherReturns(status) ==
    IF status \in {429, 500, 502, 504} THEN "Retryable" ELSE "Terminal"

\* The match on res.status().as_u16() for a status other than 200: whether
\* the arm returns from client_request ("Terminal") or yields a value for
\* error and lets the loop go on ("Retryable").
StatusClass(status) ==
    IF status \in {400, 413, 414, 415, 501} THEN "Terminal" ELSE "Retryable"

\* The QueryError of that arm.
StatusQueryError(status) ==
    CASE status = 400 -> QueryError("BadRequest400", NoMsg)
      [] status = 413 -> QueryError("PayloadTooLarge413", NoMsg)
      [] status = 414 -> QueryError("UriTooLong414", NoMsg)
      [] status = 415 -> QueryError("UnsupportedMediaType415", NoMsg)
      [] status = 501 -> QueryError("NotImplemented501", NoMsg)
      [] status = 429 -> QueryError("TooManyRequests429", NoMsg)
      [] status = 500 -> QueryError("InternalServerError500", NoMsg)
      [] status = 502 -> QueryError("BadGateway502", NoMsg)
      [] status = 504 -> QueryError("ResolverTimeout504", NoMsg)
      [] OTHER        -> QueryError("Unknown", NoMsg)

\* Results of the public operations: Ok(Vec<DnsAnswer>) or Err(DnsError).
NoResult == [tag |-> "None", answers |-> <<>>, variant |-> "", kind |-> "", msg |-> NoMsg]
Ok(answers) == [tag |-> "Ok", answers |-> answers, variant |-> "", kind |-> "", msg |-> NoMsg]
ErrQuery(qe) == [tag |-> "Err", answers |-> <<>>, variant |-> "Query",
                 kind |-> qe.kind, msg |-> qe.msg]
ErrStatus(rcode) == [tag |-> "Err", answers |-> <<>>, variant |-> "Status",
                     kind |-> rcode, msg |-> NoMsg]
ErrInvalidRecordType == [tag |-> "Err", answers |-> <<>>, variant |-> "InvalidRecordType",
                         kind |-> "", msg |-> NoMsg]

\* num::FromPrimitive::from_u32 for RCode: the name of the RCode variant with
\* that discriminant, "" when there is none.
RCodeFromU32(status) ==
    CASE status = 0 -> "NoError"
      [] status = 3 -> "NXDomain"
      [] OTHER      -> ""

\* ------------------------------------------------------------ input domains
GoogleServer     == [uri |-> "https://dns.google/resolve", timeout |-> "3s"]
CloudflareServer == [uri |-> "https://1.1.1.1/dns-query", timeout |-> "10s"]
BrokenServer     == [uri |-> "https://exa mple/", timeout |-> "1s"]
ServerPool == {GoogleServer, CloudflareServer, BrokenServer}

RECURSIVE SeqsUpTo(_, _)
SeqsUpTo(S, n) ==
    IF n = 0 THEN {<<>>}
    ELSE LET shorter == SeqsUpTo(S, n - 1)
         IN  shorter \cup {Append(s, x) : s \in {t \in shorter : Len(t) = n - 1}, x \in S}

ServerLists == SeqsUpTo(ServerPool, MaxServers)

\* domain_to_ascii of the idna crate on the domains tried
\* ("b<u-umlaut>cher.example" stands for the name written with U+00FC)
Domains == {"example.com", "b<u-umlaut>cher.example", "a..b"}
domain_to_ascii(domain) ==
    CASE domain = "example.com" -> [ok |-> TRUE,  name |-> "example.com", err |-> NoMsg]
      [] domain = "b<u-umlaut>cher.example" ->
            [ok |-> TRUE,  name |-> "xn--bcher-kva.example", err |-> NoMsg]
      [] OTHER                  -> [ok |-> FALSE, name |-> "", err |-> <<"Errors">>]

\* ShadowedName that keeps the caller's spelling
ShadowedNameRaw(domain, enc) == domain

\* let name = match idna::domain_to_ascii(name) { Ok(name) => name, .. }: the
\* name the rest of client_request sees
ShadowedName(domain, enc) == enc.name

\* format!("{}?name={}&type={}", server.uri(), name, rtype.1)
Url(server, nm, rt) == [uri |-> server.uri, name |-> nm, type |-> rt.name]

\* UriParses that accepts every URL
UriParsesAlways(url) == TRUE

\* url.parse::<Uri>() succeeds
UriParses(url) == url.uri # BrokenServer.uri

AnswerA   == [name |-> "example.com.", type |-> 1,  TTL |-> 300,
              data |-> <<"1", ".", "2">>]
AnswerMx5 == [name |-> "example.com.", type |-> 15, TTL |-> 60,
              data |-> <<"5", " ", "m", "x", "1">>]
WireAnswers == {AnswerA, AnswerMx5}

HttpStatuses == {200, 400, 413, 414, 415, 501, 429, 500, 502, 504, 404, 503, 301}
TransportErrors == {<<"connection refused">>}
BodyStatuses == {0, 3, 65535}

\* Response bodies: not JSON at all, a JSON object without Status, a Status
\* that is not a u32, and well-formed envelopes with or without Answer.
Body(wf, hs, st, ha, ans) ==
    [wellFormed |-> wf, hasStatus |-> hs, Status |-> st, hasAnswer |-> ha, Answer |-> ans]
Bodies ==
    {Body(FALSE, FALSE, 0, FALSE, <<>>), Body(TRUE, FALSE, 0, FALSE, <<>>),
     Body(TRUE, TRUE, -1, FALSE, <<>>)}
    \cup {Body(TRUE, TRUE, st, FALSE, <<>>) : st \in BodyStatuses}
    \cup {Body(TRUE, TRUE, st, TRUE, <<AnswerA>>) : st \in BodyStatuses}
    \cup {Body(TRUE, TRUE, 0, TRUE, ans) : ans \in SeqsUpTo(WireAnswers, MaxAnswers)}

NoResponse == [Status |-> 0, Answer |-> [some |-> FALSE, val |-> <<>>]]

\* from_slice with Status defaulting to 0 when the field is missing
from_slice_default_status(body) ==
    IF body.wellFormed /\ (~body.hasStatus \/ body.Status >= 0)
    THEN [ok |-> TRUE, res |-> [Status |-> IF body.hasStatus THEN body.Status ELSE 0,
                                Answer |-> [some |-> body.hasAnswer,
                                            val |-> IF body.hasAnswer THEN body.Answer ELSE <<>>]]]
    ELSE [ok |-> FALSE, res |-> NoResponse]

\* from_slice with Answer a required field
from_slice_answer_required(body) ==
    IF body.wellFormed /\ body.hasStatus /\ body.Status >= 0 /\ body.hasAnswer
    THEN [ok |-> TRUE, res |-> [Status |-> body.Status,
                                Answer |-> [some |-> TRUE, val |-> body.Answer]]]
    ELSE [ok |-> FALSE, res |-> NoResponse]

\* serde_json::from_slice::<DnsResponse>(&body): Status is a required u32
\* (the Status values of the bodies tried are all below 2^31), Answer is
\* optional
from_slice(body) ==
    IF body.wellFormed /\ body.hasStatus /\ body.Status >= 0
    THEN [ok |-> TRUE, res |-> [Status |-> body.Status,
                                Answer |-> [some |-> body.hasAnswer,
                                            val |-> IF body.hasAnswer THEN body.Answer ELSE <<>>]]]
    ELSE [ok |-> FALSE, res |-> NoResponse]

\* Option::unwrap_or_default on res.Answer
unwrap_or_default(opt) == IF opt.some THEN opt.val ELSE <<>>

\* -------------------------------------------------------------------- state
VARIABLES
    built,      \* outcome of with_servers: "none" before it ran, "ok", "NoServers"
    given,      \* the slice handed to with_servers
    servers,    \* Dns.servers of the constructed resolver
    call,       \* the public operation in progress and its arguments
    pc,         \* position of the call: "idle", "awaitGet", "awaitBody", "done"
    rtype,      \* the Rtype handed to client_request
    name,       \* client_request's encoded name
    idx,        \* position of the loop over self.servers (1-based)
    error,      \* client_request's local variable error
    getLog,     \* the calls of DnsClient::get seen by the transport, in order
    inflight,   \* positions whose GET future exists and has not completed
    attempts,   \* the finished attempts and how each ended, in order
    result,     \* what the public operation returned
    elapsed,    \* positions whose server timer ran out since the attempt began
    abandoned,  \* positions whose GET was dropped and may still be answered
    current,    \* the call whose locals the variables above hold
    tasks,      \* the locals of the other calls in progress on the resolver
    code,       \* a record-type code handed to rtype_to_name
    named,      \* whether rtype_to_name ran and the String it returned
    decoded,    \* a decoded Answer list handed to the answer processing
    requested,  \* the Rtype the answers are processed for
    processed   \* the processing applied and the sequence it produced

vars == <<built, given, servers, call, pc, rtype, name, idx, error, getLog,
          inflight, attempts, result, elapsed, abandoned, current, tasks,
          code, named, decoded, requested, processed>>

\* the resolver, shared by every call made on it
sharedVars == <<built, given, servers>>
\* one call: the arguments and locals of the operation and of client_request,
\* and what the transport and the timers hold for it
callVars == <<call, pc, rtype, name, idx, error, getLog, inflight, attempts,
              result, elapsed, abandoned>>
taskVars == <<current, tasks>>
engineVars == <<sharedVars, callVars, taskVars>>
processVars == <<decoded, requested, processed>>
registryVars == <<code, named>>
\* what the steps of a call leave alone
restVars == <<taskVars, processVars, registryVars>>

NoCall  == [op |-> "none", arg |-> <<>>, domain |-> ""]
NoRtype == [code |-> 0, name |-> <<>>]
NoError == QueryError("", NoMsg)
NotProcessed == [by |-> "none", out |-> <<>>]
NotNamed == [done |-> FALSE, name |-> <<>>]

\* The record types the calls of the model ask for.
KonstsTried == {<<"a">>, <<"a", "n", "y">>, <<"m", "x">>}
IndexOfKonst(k) == CHOOSE i \in 1..Len(Rtypes) : Rtypes[i].konst = k

\* The rtype strings handed to resolve_str_type.
StrTypesTried == {<<"A">>, <<"M", "x">>,
                  <<"b", "o", "g", "u", "s">>, <<"u", "n", "k", "n", "o", "w", "n">>,
                  <<>>, <<"m", "x", " ">>}

\* The match of resolve_str_type: the position of the first registry entry
\* whose konst equals the lower-cased string, 0 for the wildcard arm.
StrTypeArm(s) ==
    LET l == to_ascii_lowercase(s)
    IN  IF \E i \in 1..Len(Rtypes) : Rtypes[i].konst = l
        THEN CHOOSE i \in 1..Len(Rtypes) :
                /\ Rtypes[i].konst = l
                /\ \A j \in 1..(i - 1) : Rtypes[j].konst # l
        ELSE 0

\* ---------------------------------------------------------- result wrapping
\* cr is the Result of client_request: [ok, res, err].
CrOk(res) == [ok |-> TRUE,  res |-> res, err |-> NoError]
CrErr(qe) == [ok |-> FALSE, res |-> NoResponse, err |-> qe]

\* StatusError that forgets the decoded RCode
StatusErrorAlwaysUnknown(status) == ErrStatus("Unknown")

\* the match on from_u32(res.Status) shared by both wrappers, for a status
\* other than NoError
StatusError(status) ==
    IF RCodeFromU32(status) # "" THEN ErrStatus(RCodeFromU32(status))
    ELSE ErrStatus("Unknown")

\* request_and_process around a finished client_request
request_and_process(cr, rt) ==
    IF ~cr.ok THEN {ErrQuery(cr.err)}
    ELSE IF RCodeFromU32(cr.res.Status) = "NoError"
         THEN {Ok(GenericFilter(unwrap_or_default(cr.res.Answer), rt))}
         ELSE {StatusError(cr.res.Status)}

\* resolve_mx_and_sort around a finished client_request
resolve_mx_and_sort(cr) ==
    IF ~cr.ok THEN {ErrQuery(cr.err)}
    ELSE IF RCodeFromU32(cr.res.Status) = "NoError"
         THEN {Ok(out) : out \in MxAndSort(unwrap_or_default(cr.res.Answer))}
         ELSE {StatusError(cr.res.Status)}

Wrapper(op, rt, cr) ==
    IF op = "resolve_mx_and_sort" THEN resolve_mx_and_sort(cr)
    ELSE request_and_process(cr, rt)

\* --------------------------------------------------------------------- Init
EngineInit ==
    /\ built = "none"
    /\ given = <<>>
    /\ servers = <<>>
    /\ call = NoCall
    /\ pc = "idle"
    /\ rtype = NoRtype
    /\ name = ""
    /\ idx = 0
    /\ error = NoError
    /\ getLog = <<>>
    /\ inflight = {}
    /\ attempts = <<>>
    /\ result = NoResult
    /\ elapsed = {}
    /\ abandoned = {}
    /\ current = 1
    /\ tasks = <<>>

ProcessIdle ==
    /\ decoded = <<>>
    /\ requested = NoRtype
    /\ processed = NotProcessed

RegistryIdle ==
    /\ code = 0
    /\ named = NotNamed

Init ==
    /\ EngineInit
    /\ ProcessIdle
    /\ RegistryIdle

\* ------------------------------------------------------------- with_servers
\* with_servers that also rejects a single server
with_servers_strict(list) ==
    IF Len(list) <= 1 THEN [ok |-> FALSE, servers |-> <<>>]
    ELSE [ok |-> TRUE, servers |-> list]

\* Dns::with_servers(servers): Err(NoServers) or Ok(Dns { servers: servers.to_vec() })
with_servers(list) ==
    IF list = <<>> THEN [ok |-> FALSE, servers |-> <<>>]
    ELSE [ok |-> TRUE, servers |-> list]

WithServers(list) ==
    /\ built = "none"
    /\ given' = list
    /\ IF with_servers(list).ok
       THEN built' = "ok" /\ servers' = with_servers(list).servers
       ELSE built' = "NoServers" /\ servers' = servers
    /\ UNCHANGED callVars
    /\ UNCHANGED restVars

\* ----------------------------------------------------------- client_request
\* client_request returns cr to the wrapper op, which returns to the caller.
Return(op, rt, cr) ==
    /\ pc' = "done"
    /\ result' \in Wrapper(op, rt, cr)

\* The loop of client_request from position k on, error holding e and fl
\* being the GET futures still alive: leave the loop when the servers are
\* exhausted, return InvalidEndpoint when the URL does not parse, otherwise
\* call the transport and wait on the timeout race.
TryServer(k, e, nm, rt, op, fl) ==
    /\ error' = e
    /\ IF k > Len(servers)
       THEN /\ Return(op, rt, CrErr(e))
            /\ UNCHANGED <<idx, getLog>>
            /\ inflight' = fl
       ELSE LET url == Url(servers[k], nm, rt)
            IN  /\ idx' = k
                /\ IF ~UriParses(url)
                   THEN /\ Return(op, rt, CrErr(QueryError("InvalidEndpoint", <<url.uri>>)))
                        /\ getLog' = getLog
                        /\ inflight' = fl
                   ELSE /\ pc' = "awaitGet"
                        /\ getLog' = Append(getLog, [server |-> k, url |-> url])
                        /\ inflight' = fl \cup {k}
                        /\ result' = result

\* The head of client_request: encode the name, then enter the loop.
ClientRequest(op, domain, rt) ==
    LET enc == domain_to_ascii(domain)
    IN  /\ rtype' = rt
        /\ attempts' = attempts
        /\ IF ~enc.ok
           THEN /\ Return(op, rt, CrErr(QueryError("InvalidName", enc.err)))
                /\ UNCHANGED <<name, idx, error, getLog, inflight>>
           ELSE /\ name' = ShadowedName(domain, enc)
                /\ TryServer(1, QueryError("Unknown", NoMsg), ShadowedName(domain, enc),
                             rt, op, inflight)

\* resolve_<konst>(name)
ResolveKonst(k, domain) ==
    /\ built = "ok" /\ pc = "idle"
    /\ call' = [op |-> "resolve", arg |-> k, domain |-> domain]
    /\ ClientRequest("resolve", domain, RTYPE(IndexOfKonst(k)))
    /\ UNCHANGED <<built, given, servers, elapsed, abandoned>>
    /\ UNCHANGED restVars

\* resolve_str_type(name, rtype)
ResolveStrType(s, domain) ==
    /\ built = "ok" /\ pc = "idle"
    /\ call' = [op |-> "resolve_str_type", arg |-> s, domain |-> domain]
    /\ IF StrTypeArm(s) = 0
       THEN /\ pc' = "done"
            /\ result' = ErrInvalidRecordType
            /\ UNCHANGED <<rtype, name, idx, error, getLog, inflight, attempts>>
       ELSE ClientRequest("resolve", domain, RTYPE(StrTypeArm(s)))
    /\ UNCHANGED <<built, given, servers, elapsed, abandoned>>
    /\ UNCHANGED restVars

\* resolve_mx_and_sort(domain)
ResolveMxAndSort(domain) ==
    /\ built = "ok" /\ pc = "idle"
    /\ call' = [op |-> "resolve_mx_and_sort", arg |-> <<>>, domain |-> domain]
    /\ ClientRequest("resolve_mx_and_sort", domain, RTYPE_mx)
    /\ UNCHANGED <<built, given, servers, elapsed, abandoned>>
    /\ UNCHANGED restVars

\* What a body is, seen from outside the decoder: "" when no body was read.
BodyShape(readOk, body) ==
    IF ~readOk THEN "unreadable"
    ELSE IF ~body.wellFormed THEN "notJson"
    ELSE IF ~body.hasStatus THEN "noStatus"
    ELSE IF body.Status < 0 THEN "badStatus"
    ELSE "envelope"

\* One finished attempt, as the call observed it.
Attempt(k, class, http, shape, qe, res) ==
    [server |-> k, class |-> class, http |-> http, shape |-> shape,
     err |-> qe, res |-> res]

\* NextIndex with an iterator that does not advance
NextIndexStuck(k) == k

\* for server in self.servers.iter(): the position after position k
NextIndex(k) == k + 1

\* AssignError that keeps the first failure observed
AssignErrorKeepFirst(old, qe) == IF old = QueryError("Unknown", NoMsg) THEN qe ELSE old

\* error = match ... { arms }: the value of error after an arm yielded qe
AssignError(old, qe) == qe

\* The tail of the loop body for an arm that yields a QueryError: assign it
\* to error, log it, go on with the next server.
NextServer(qe, http, shape) ==
    /\ attempts' = Append(attempts, Attempt(idx, "Retryable", http, shape, qe, NoResponse))
    /\ TryServer(NextIndex(idx), AssignError(error, qe), name, rtype, call.op,
                 inflight \ {idx})

\* The timeout race is won by self.client.get(endpoint): Ok(Err(e)) when the
\* transport fails, Ok(Ok(res)) with the status of the response otherwise.
\* status = 0 stands for the transport failure carrying message e.
GetReturns(status, e) ==
    /\ pc = "awaitGet"
    /\ IF status = 0
       THEN NextServer(QueryError("Connection", e), 0, "")
       ELSE IF status = 200
       THEN /\ pc' = "awaitBody"
            /\ inflight' = inflight \ {idx}
            /\ UNCHANGED <<idx, error, getLog, attempts, result>>
       ELSE IF StatusClass(status) = "Terminal"
       THEN /\ attempts' = Append(attempts,
                    Attempt(idx, "Terminal", status, "", StatusQueryError(status), NoResponse))
            /\ Return(call.op, rtype, CrErr(StatusQueryError(status)))
            /\ inflight' = inflight \ {idx}
            /\ UNCHANGED <<idx, error, getLog>>
       ELSE NextServer(StatusQueryError(status), status, "")
    /\ UNCHANGED <<built, given, servers, call, rtype, name, elapsed, abandoned>>
    /\ UNCHANGED restVars

\* TimeoutError that reports the expiry as Unknown
TimeoutErrorUnknown(server) == QueryError("Unknown", NoMsg)

\* Err(_) => QueryError::Connection(format!("connection timeout after {:?}",
\* server.timeout()))
TimeoutError(server) ==
    QueryError("Connection", <<"connection timeout after", server.timeout>>)

\* The timeout race is won by the timer of the server being attempted: the
\* GET future is dropped and the attempt ends as a Connection error. The
\* transport may still hold the request of the dropped future.
TimerElapses ==
    /\ pc = "awaitGet"
    /\ elapsed' = elapsed \cup {idx}
    /\ abandoned' = abandoned \cup {idx}
    /\ NextServer(TimeoutError(servers[idx]), 0, "")
    /\ UNCHANGED <<built, given, servers, call, rtype, name>>
    /\ UNCHANGED restVars

\* The duration of the server being attempted runs out while the call waits
\* on hyper::body::to_bytes(res): the Timeout future wrapped self.client.get
\* only and is gone, so nothing in the call observes it.
DeadlinePasses ==
    /\ pc = "awaitBody"
    /\ idx \notin elapsed
    /\ elapsed' = elapsed \cup {idx}
    /\ UNCHANGED <<call, pc, rtype, name, idx, error, getLog, inflight, attempts,
                   result, abandoned>>
    /\ UNCHANGED sharedVars
    /\ UNCHANGED restVars

\* The server at position k answers a GET whose future was dropped: there is
\* no future left to receive the response.
LateResponse(k) ==
    /\ k \in abandoned
    /\ abandoned' = abandoned \ {k}
    /\ UNCHANGED <<call, pc, rtype, name, idx, error, getLog, inflight, attempts,
                   result, elapsed>>
    /\ UNCHANGED sharedVars
    /\ UNCHANGED restVars

\* hyper::body::to_bytes(res) finishes: readOk = FALSE for a read error,
\* otherwise body holds the bytes, which are decoded at once.
BodyReturns(readOk, body) ==
    /\ pc = "awaitBody"
    /\ IF ~readOk
       THEN NextServer(QueryError("ReadResponse", <<"read error">>), 200,
                       BodyShape(readOk, body))
       ELSE IF ~from_slice(body).ok
       THEN NextServer(QueryError("ParseResponse", <<"decode error">>), 200,
                       BodyShape(readOk, body))
       ELSE /\ attempts' = Append(attempts,
                    Attempt(idx, "Success", 200, BodyShape(readOk, body), NoError,
                            from_slice(body).res))
            /\ Return(call.op, rtype, CrOk(from_slice(body).res))
            /\ UNCHANGED <<idx, error, getLog, inflight>>
    /\ UNCHANGED <<built, given, servers, call, rtype, name, elapsed, abandoned>>
    /\ UNCHANGED restVars

Next ==
    \/ \E list \in ServerLists : WithServers(list)
    \/ \E k \in KonstsTried, d \in Domains : ResolveKonst(k, d)
    \/ \E s \in StrTypesTried, d \in Domains : ResolveStrType(s, d)
    \/ \E d \in Domains : ResolveMxAndSort(d)
    \/ \E st \in HttpStatuses \cup {0}, e \in TransportErrors : GetReturns(st, e)
    \/ TimerElapses
    \/ \E b \in Bodies : \E ok \in BOOLEAN : BodyReturns(ok, b)

Spec == Init /\ [][Next]_vars

\* ------------------------------------------------- calls, timers and late answers
\* The same calls with the passing of time and the answers to dropped
\* requests made visible, over fewer transport outcomes.
TimedStatuses == {0, 200, 429, 400}
TimedBodies == {Body(FALSE, FALSE, 0, FALSE, <<>>), Body(TRUE, TRUE, 0, TRUE, <<AnswerA>>)}

NextTimed ==
    \/ \E list \in ServerLists : WithServers(list)
    \/ ResolveKonst(<<"a">>, "example.com")
    \/ ResolveStrType(<<"A">>, "example.com")
    \/ ResolveMxAndSort("example.com")
    \/ \E st \in TimedStatuses, e \in TransportErrors : GetReturns(st, e)
    \/ TimerElapses
    \/ DeadlinePasses
    \/ \E k \in 1..Len(servers) : LateResponse(k)
    \/ \E b \in TimedBodies : \E ok \in BOOLEAN : BodyReturns(ok, b)

SpecTimed == Init /\ [][NextTimed]_vars

\* ------------------------------------------------ answer processing in isolation
TypeMx(d, ttl) == [name |-> "example.com.", type |-> 15, TTL |-> ttl, data |-> d]

DecodedAnswers ==
    { AnswerA, AnswerMx5,
      [name |-> "www.example.com.", type |-> 5, TTL |-> 30, data |-> <<"c", "n">>],
      [name |-> "example.com.", type |-> 1, TTL |-> 10, data |-> <<"5", " ", "m", "x", "1">>],
      TypeMx(<<"1", "0", " ", "m", "x", "2">>, 61),
      TypeMx(<<"5", " ", "m", "x", "3", " ", "x">>, 62),
      TypeMx(<<" ", "0", "5", "\t", "m", "x", "4">>, 63),
      TypeMx(<<"7">>, 64),
      TypeMx(<<>>, 65),
      TypeMx(<<"m", "x", " ", "5">>, 66),
      TypeMx(<<"-", "1", " ", "m", "x">>, 67),
      TypeMx(<<"4", "2", "9", "4", "9", "6", "7", "2", "9", "6", " ", "m", "x">>, 68),
      TypeMx(<<"4", "2", "9", "4", "9", "6", "7", "2", "9", "5", " ", "m", "x", "9">>, 69),
      TypeMx(<<"+", "5", " ", "m", "x", "5">>, 70) }

InitProcess ==
    /\ EngineInit
    /\ RegistryIdle
    /\ decoded \in SeqsUpTo(DecodedAnswers, MaxDecoded)
    /\ requested \in {RTYPE(IndexOfKonst(k)) : k \in KonstsTried}
    /\ processed = NotProcessed

\* the Ok arm of request_and_process applied to the decoded list
FilterAnswers ==
    /\ processed.by = "none"
    /\ processed' = [by |-> "request_and_process", out |-> GenericFilter(decoded, requested)]
    /\ UNCHANGED <<decoded, requested>>
    /\ UNCHANGED <<engineVars, registryVars>>

\* the Ok arm of resolve_mx_and_sort applied to the decoded list
SortMx ==
    /\ processed.by = "none"
    /\ \E out \in MxAndSort(decoded) :
            processed' = [by |-> "resolve_mx_and_sort", out |-> out]
    /\ UNCHANGED <<decoded, requested>>
    /\ UNCHANGED <<engineVars, registryVars>>

NextProcess == FilterAnswers \/ SortMx

SpecProcess == InitProcess /\ [][NextProcess]_vars

\* ------------------------------------------------------ rtype_to_name in isolation
CodesTried == 0..MaxCode \cup {999999}

InitRegistry ==
    /\ EngineInit
    /\ ProcessIdle
    /\ code \in CodesTried
    /\ named = NotNamed

RtypeToName ==
    /\ ~named.done
    /\ named' = [done |-> TRUE, name |-> rtype_to_name(code)]
    /\ UNCHANGED <<code, engineVars, processVars>>

NextRegistry == RtypeToName

SpecRegistry == InitRegistry /\ [][NextRegistry]_vars

\* ------------------------------------------------- several calls on one resolver
\* Every call of an async resolve method is a future of its own that holds
\* the let bindings of client_request; the resolver is borrowed as &self.
\* The variables of the call being polled are the ones the actions above
\* work on, the other futures are parked in tasks.
MaxCalls == 2

Locals ==
    [call |-> call, pc |-> pc, rtype |-> rtype, name |-> name, idx |-> idx,
     error |-> error, getLog |-> getLog, inflight |-> inflight,
     attempts |-> attempts, result |-> result, elapsed |-> elapsed,
     abandoned |-> abandoned]

BlankLocals ==
    [call |-> NoCall, pc |-> "idle", rtype |-> NoRtype, name |-> "", idx |-> 0,
     error |-> NoError, getLog |-> <<>>, inflight |-> {},
     attempts |-> <<>>, result |-> NoResult, elapsed |-> {},
     abandoned |-> {}]

\* Resume with the iterator over the servers kept in the resolver
ResumeSharedIterator(saved, running) == [saved EXCEPT !.idx = running.idx]

\* What a future finds when it is polled again: its own bindings, whatever
\* the future polled before it did to its own.
Resume(saved, running) == saved

\* The executor stops polling the current future at an await and polls the
\* future of call c.
Switch(c) ==
    /\ c # current
    /\ current' = c
    /\ tasks' = [tasks EXCEPT ![current] = Locals]
    /\ LET l == Resume(tasks[c], Locals)
       IN  /\ call' = l.call
           /\ pc' = l.pc
           /\ rtype' = l.rtype
           /\ name' = l.name
           /\ idx' = l.idx
           /\ error' = l.error
           /\ getLog' = l.getLog
           /\ inflight' = l.inflight
           /\ attempts' = l.attempts
           /\ result' = l.result
           /\ elapsed' = l.elapsed
           /\ abandoned' = l.abandoned
    /\ UNCHANGED sharedVars
    /\ UNCHANGED <<processVars, registryVars>>

ConcurrentServerLists ==
    {<<GoogleServer, CloudflareServer>>, <<CloudflareServer, BrokenServer>>}
ConcurrentStatuses == {200, 429, 400}

InitConcurrent ==
    /\ built = "none"
    /\ given = <<>>
    /\ servers = <<>>
    /\ call = NoCall
    /\ pc = "idle"
    /\ rtype = NoRtype
    /\ name = ""
    /\ idx = 0
    /\ error = NoError
    /\ getLog = <<>>
    /\ inflight = {}
    /\ attempts = <<>>
    /\ result = NoResult
    /\ elapsed = {}
    /\ abandoned = {}
    /\ current = 1
    /\ tasks = [c \in 1..MaxCalls |-> BlankLocals]
    /\ ProcessIdle
    /\ RegistryIdle

NextConcurrent ==
    \/ \E list \in ConcurrentServerLists : WithServers(list)
    \/ ResolveKonst(<<"a">>, "example.com")
    \/ ResolveMxAndSort("example.com")
    \/ \E st \in ConcurrentStatuses : GetReturns(st, <<>>)
    \/ TimerElapses
    \/ \E b \in TimedBodies : BodyReturns(TRUE, b)
    \/ \E c \in 1..MaxCalls : Switch(c)

SpecConcurrent == InitConcurrent /\ [][NextConcurrent]_vars

\* ================================================================== claims
Last(seq) == seq[Len(seq)]

\* C1: within one resolve call the servers contacted through the transport
\* are a prefix of the configured list: the i-th GET goes to the i-th
\* configured server (in order, none skipped, none twice), at most one GET is
\* in flight, and it belongs to the server contacted last; server k+1 is
\* contacted only when the attempts on servers 1..k have all finished.
C1_ContactsArePrefix ==
    /\ Len(getLog) <= Len(servers)
    /\ \A i \in 1..Len(getLog) :
            /\ getLog[i].server = i
            /\ getLog[i].url.uri = servers[i].uri
    /\ Cardinality(inflight) <= 1
    /\ inflight \subseteq {Len(getLog)}
    /\ Len(attempts) <= Len(getLog)
    /\ Len(getLog) <= Len(attempts) + 1
    /\ \A i \in 1..Len(attempts) : attempts[i].server = i
    /\ pc \in {"awaitGet", "awaitBody"} => Len(attempts) = Len(getLog) - 1

C1_Witness ==
    /\ Len(servers) = 2 /\ Len(getLog) = 2 /\ pc = "awaitGet"
    /\ inflight = {2} /\ Len(attempts) = 1

\* The QueryError kind the spec pairs with each terminal HTTP status.
TerminalKindOf(status) ==
    CASE status = 400 -> "BadRequest400"
      [] status = 413 -> "PayloadTooLarge413"
      [] status = 414 -> "UriTooLong414"
      [] status = 415 -> "UnsupportedMediaType415"
      [] status = 501 -> "NotImplemented501"
      [] OTHER        -> "none"

\* C2: an attempt that returned HTTP 400, 413, 414, 415 or 501 is the last
\* attempt of the call: the call has ended with the matching error wrapped as
\* a Query error, and no server after that one has been contacted.
C2_TerminalStatusEndsCall ==
    \A i \in 1..Len(attempts) :
        attempts[i].http \in {400, 413, 414, 415, 501} =>
            /\ i = Len(attempts)
            /\ pc = "done"
            /\ result.tag = "Err" /\ result.variant = "Query"
            /\ result.kind = TerminalKindOf(attempts[i].http)
            /\ Len(getLog) = i
            /\ inflight = {}

C2_Witness ==
    /\ Len(servers) = 2 /\ UriParses(Url(servers[2], name, rtype))
    /\ Len(attempts) = 1 /\ attempts[1].http = 413
    /\ pc = "done" /\ result.kind = "PayloadTooLarge413" /\ Len(getLog) = 1

\* What C3 says of the attempt at position i, given whether the claim is
\* restricted to a next server whose query URI parses.
RetryThenSuccess(i, onlyWellFormed) ==
    (/\ attempts[i].http \in {429, 500, 502, 504}
     /\ i < Len(servers)
     /\ onlyWellFormed => UriParses(Url(servers[i + 1], name, rtype)))
    => /\ Len(getLog) >= i + 1
       /\ getLog[i].server = i /\ getLog[i + 1].server = i + 1
       /\ (/\ Len(attempts) >= i + 1
           /\ attempts[i + 1].class = "Success"
           /\ attempts[i + 1].res.Status = 0)
          => /\ pc = "done" /\ result.tag = "Ok"
             /\ result \in Wrapper(call.op, rtype, CrOk(attempts[i + 1].res))
             /\ \A j \in 1..Len(result.answers) :
                    \E a \in 1..Len(attempts[i + 1].res.Answer.val) :
                        /\ result.answers[j].name = attempts[i + 1].res.Answer.val[a].name
                        /\ result.answers[j].TTL = attempts[i + 1].res.Answer.val[a].TTL

\* C3 as stated: after HTTP 429, 500, 502 or 504 with a later server
\* configured, the next server is contacted, and if it returns 200 with a
\* decodable body of Status 0 the call succeeds with that response's answers.
C3_AsStated == \A i \in 1..Len(attempts) : RetryThenSuccess(i, FALSE)

\* C3 (amended): the same, for a next server whose query URI is well-formed.
C3_RetryableStatusAdvances == \A i \in 1..Len(attempts) : RetryThenSuccess(i, TRUE)

C3_Witness ==
    /\ Len(attempts) = 2 /\ attempts[1].http = 429
    /\ attempts[2].class = "Success" /\ attempts[2].res.Status = 0
    /\ result.tag = "Ok" /\ result.answers # <<>>
    /\ getLog[1].server = 1 /\ getLog[2].server = 2

\* The QueryError kinds of the retryable class.
RetryableKinds == {"Connection", "ReadResponse", "ParseResponse",
                   "TooManyRequests429", "InternalServerError500",
                   "BadGateway502", "ResolverTimeout504", "Unknown"}

\* C4: a call that returned a retryable-class error has attempted every
\* configured server, every attempt ended in a retryable failure, and the
\* error returned is the one of the attempt on the last server.
C4_ExhaustedReturnsLastError ==
    (/\ pc = "done" /\ result.tag = "Err" /\ result.variant = "Query"
     /\ result.kind \in RetryableKinds)
    => /\ Len(attempts) = Len(servers)
       /\ \A i \in 1..Len(attempts) :
            attempts[i].server = i /\ attempts[i].class = "Retryable"
       /\ result.kind = Last(attempts).err.kind
       /\ result.msg = Last(attempts).err.msg

C4_Witness ==
    /\ pc = "done" /\ Len(servers) = 2 /\ Len(attempts) = 2
    /\ attempts[1].err.kind = "BadGateway502"
    /\ attempts[2].err.kind = "Connection"
    /\ result.variant = "Query" /\ result.kind = "Connection"

\* C5: a 200 response whose body decodes with a Status other than 0 ends the
\* call, for the generic resolve operations and for resolve_mx_and_sort alike,
\* with a Status error carrying the RCode of that value, or Unknown when the
\* value is no RCode; no server after that one has been contacted.
C5_NonZeroStatusEndsCall ==
    \A i \in 1..Len(attempts) :
        (attempts[i].class = "Success" /\ attempts[i].res.Status # 0) =>
            /\ i = Len(attempts) /\ pc = "done"
            /\ result.tag = "Err" /\ result.variant = "Status"
            /\ result.kind = IF RCodeFromU32(attempts[i].res.Status) # ""
                             THEN RCodeFromU32(attempts[i].res.Status)
                             ELSE "Unknown"
            /\ Len(getLog) = i

C5_Witness ==
    /\ call.op = "resolve_mx_and_sort" /\ Len(servers) = 2
    /\ UriParses(Url(servers[2], name, rtype))
    /\ Len(attempts) = 1 /\ attempts[1].class = "Success"
    /\ attempts[1].res.Status = 3 /\ attempts[1].res.Answer.some
    /\ result.variant = "Status" /\ result.kind = "NXDomain" /\ Len(getLog) = 1

\* ------------------------------------------- claims on the answer processing
Min(S) == CHOOSE x \in S : \A y \in S : x <= y

\* the positions of the decoded list, in ascending order, that satisfy Keep
KeptPositions(Keep(_)) == {i \in 1..Len(decoded) : Keep(decoded[i])}
NthOf(S, n) == CHOOSE i \in S : Cardinality({k \in S : k < i}) = n - 1

\* C6: a generic resolve for type code T returns exactly the subsequence of
\* the decoded Answer list with type = T (the whole list when T = 0), in
\* decoded order, every answer unmodified.
C6_FilterIsSubsequence ==
    processed.by = "request_and_process" =>
        LET Keep(a) == requested.code = 0 \/ a.type = requested.code
            kept    == KeptPositions(Keep)
        IN  /\ Len(processed.out) = Cardinality(kept)
            /\ \A n \in 1..Len(processed.out) :
                    processed.out[n] = decoded[NthOf(kept, n)]

C6_Witness ==
    /\ processed.by = "request_and_process" /\ requested.code = 1
    /\ Len(decoded) = 3 /\ decoded[1].type = 1 /\ decoded[2].type = 5
    /\ decoded[3].type = 1 /\ decoded[1] # decoded[3]
    /\ processed.out = <<decoded[1], decoded[3]>>

\* An MX answer that resolve_mx_and_sort retains, and its priority.
IsRetainedMx(a) ==
    /\ a.type = 15
    /\ Len(split_ascii_whitespace(a.data)) >= 2
    /\ parse_u32(split_ascii_whitespace(a.data)[1]).ok
PriorityOf(a) == parse_u32(split_ascii_whitespace(a.data)[1]).val

\* the one-to-one assignments of output positions to retained positions
Assignments ==
    LET kept == KeptPositions(IsRetainedMx)
    IN  IF Len(processed.out) # Cardinality(kept) THEN {}
        ELSE {f \in [1..Len(processed.out) -> kept] :
                \A i, j \in 1..Len(processed.out) : f[i] = f[j] => i = j}

SameRecord(o, a) == o.name = a.name /\ o.type = a.type /\ o.TTL = a.TTL

Ascending(f) ==
    \A i, j \in 1..Len(processed.out) :
        i < j => U32Le(PriorityOf(decoded[f[i]]), PriorityOf(decoded[f[j]]))

KeepsDecodedOrderAmongEqual(f) ==
    \A i, j \in 1..Len(processed.out) :
        (i < j /\ PriorityOf(decoded[f[i]]) = PriorityOf(decoded[f[j]])) => f[i] < f[j]

\* C7 as stated: the output of resolve_mx_and_sort is ascending by priority
\* and answers of equal priority keep their decoded relative order.
C7_AsStated ==
    processed.by = "resolve_mx_and_sort" =>
        \E f \in Assignments :
            /\ \A i \in 1..Len(processed.out) : SameRecord(processed.out[i], decoded[f[i]])
            /\ Ascending(f)
            /\ KeepsDecodedOrderAmongEqual(f)

\* C7 (amended): the output of resolve_mx_and_sort holds the retained MX
\* answers, each once, in ascending order of priority; the relative order of
\* answers of equal priority is not determined.
C7_MxAscending ==
    processed.by = "resolve_mx_and_sort" =>
        \E f \in Assignments :
            /\ \A i \in 1..Len(processed.out) : SameRecord(processed.out[i], decoded[f[i]])
            /\ Ascending(f)

C7_Witness ==
    /\ processed.by = "resolve_mx_and_sort"
    /\ Len(decoded) = 3 /\ Len(processed.out) = 3
    /\ decoded[1].TTL = 61 /\ decoded[2].TTL = 62 /\ decoded[3].TTL = 60
    /\ processed.out[1].TTL = 60 /\ processed.out[2].TTL = 62 /\ processed.out[3].TTL = 61

\* the data from the start of the second whitespace-delimited token to the end
RestFromSecondToken(s) ==
    LET firstTok == Min({i \in 1..Len(s) : ~IsAsciiWhitespace(s[i])})
        firstGap == Min({i \in firstTok..Len(s) : IsAsciiWhitespace(s[i])})
        second   == Min({i \in firstGap..Len(s) : ~IsAsciiWhitespace(s[i])})
    IN  SubSeq(s, second, Len(s))

\* C8 as stated: each emitted MX answer is a retained answer whose data is the
\* original data from the second token onward, name, type and TTL unchanged.
C8_AsStated ==
    processed.by = "resolve_mx_and_sort" =>
        \E f \in Assignments : \A i \in 1..Len(processed.out) :
            processed.out[i] =
                [decoded[f[i]] EXCEPT !.data = RestFromSecondToken(decoded[f[i]].data)]

\* C8 (amended): each emitted MX answer is a retained answer whose data is
\* the second whitespace-delimited token of the original data alone (the
\* priority and every token after the second are removed), name, type and
\* TTL unchanged.
C8_MxDataIsSecondToken ==
    processed.by = "resolve_mx_and_sort" =>
        \E f \in Assignments : \A i \in 1..Len(processed.out) :
            processed.out[i] =
                [decoded[f[i]] EXCEPT !.data = split_ascii_whitespace(decoded[f[i]].data)[2]]

C8_Witness ==
    /\ processed.by = "resolve_mx_and_sort"
    /\ Len(decoded) = 2 /\ decoded[1].TTL = 62 /\ decoded[2].TTL = 61
    /\ Len(split_ascii_whitespace(decoded[1].data)) = 3
    /\ processed.out = << [decoded[1] EXCEPT !.data = <<"m", "x", "3">>],
                          [decoded[2] EXCEPT !.data = <<"m", "x", "2">>] >>

\* ------------------------------------------ claims on construction, dispatch
\* C9: with_servers fails with NoServers exactly when the given list is
\* empty; otherwise the resolver holds the given servers in the given order,
\* so a resolver that exists has at least one server.
C9_NoServersIffEmpty ==
    built # "none" =>
        /\ (built = "NoServers") <=> (given = <<>>)
        /\ built = "ok" => (servers = given /\ Len(servers) >= 1)
        /\ built = "NoServers" => (pc = "idle" /\ call = NoCall)

C9_Witness ==
    /\ built = "ok" /\ Len(given) = 2 /\ given[1] # given[2] /\ servers = given
    /\ pc = "done"

\* s is the registry name k in some letter case
SameIgnoringCase(s, k) ==
    /\ Len(s) = Len(k)
    /\ \A i \in 1..Len(k) : s[i] = k[i] \/ s[i] = UpperChar(k[i])

\* what a call of the dedicated operation resolve_<konst> for registry entry
\* i shows: the Rtype of the entry in every query, and a result that is the
\* generic processing of what the traversal ended with
BehavesAsDedicated(i) ==
    /\ rtype = RTYPE(i)
    /\ \A g \in 1..Len(getLog) :
            getLog[g].url = Url(servers[g], name, RTYPE(i))
    /\ pc = "done" =>
        IF attempts # <<>> /\ Last(attempts).class = "Success"
        THEN result \in request_and_process(CrOk(Last(attempts).res), RTYPE(i))
        ELSE result.tag = "Err" /\ result.variant = "Query"

\* C10: resolve_str_type with a registered name in any letter case shows what
\* the dedicated operation of that type shows (same queries, same result);
\* with any other name it fails with InvalidRecordType and contacts no server.
C10_StrTypeDispatch ==
    /\ call.op = "resolve" => BehavesAsDedicated(IndexOfKonst(call.arg))
    /\ call.op = "resolve_str_type" =>
        IF \E i \in 1..Len(Rtypes) : SameIgnoringCase(call.arg, Rtypes[i].konst)
        THEN \E i \in 1..Len(Rtypes) :
                /\ SameIgnoringCase(call.arg, Rtypes[i].konst)
                /\ BehavesAsDedicated(i)
        ELSE /\ pc = "done" /\ result = ErrInvalidRecordType
             /\ getLog = <<>> /\ attempts = <<>>

C10_Witness ==
    /\ call.op = "resolve_str_type" /\ call.arg = <<"M", "x">>
    /\ pc = "done" /\ result.tag = "Ok" /\ result.answers = <<AnswerMx5>>
    /\ Len(getLog) = 2 /\ getLog[2].url.type = <<"m", "x">>

\* --------------------------------------------------- claims on the query name
\* the call entered client_request
EnteredClientRequest == call.op # "none" /\ rtype # NoRtype

\* C11: the domain is encoded before any server is tried and every query
\* carries the encoded form (one and the same in all queries of the call);
\* when the encoding fails the call has ended with InvalidName and the
\* transport was never invoked.
C11_EncodedNameInEveryQuery ==
    EnteredClientRequest =>
        IF domain_to_ascii(call.domain).ok
        THEN /\ \A g \in 1..Len(getLog) :
                    getLog[g].url.name = domain_to_ascii(call.domain).name
             /\ call.domain = "b<u-umlaut>cher.example" =>
                    \A g \in 1..Len(getLog) : getLog[g].url.name = "xn--bcher-kva.example"
             /\ ~(result.tag = "Err" /\ result.kind = "InvalidName")
        ELSE /\ pc = "done"
             /\ result.tag = "Err" /\ result.variant = "Query"
             /\ result.kind = "InvalidName"
             /\ getLog = <<>> /\ attempts = <<>> /\ inflight = {}

C11_Witness ==
    /\ call.domain = "b<u-umlaut>cher.example" /\ Len(getLog) = 2
    /\ getLog[1].url.name = "xn--bcher-kva.example"
    /\ getLog[2].url.name = "xn--bcher-kva.example"
    /\ getLog[1].url.uri # getLog[2].url.uri

\* -------------------------------------------------------- claims on the timers
\* the attempt on the server at position k is pending, in either phase
Pending(k) == pc \in {"awaitGet", "awaitBody"} /\ idx = k

\* C12: once the timer of a server has run out, the attempt on that server
\* is no longer pending, neither awaiting the GET nor reading the body.
C12_AttemptBoundedByTimer == \A k \in elapsed : ~Pending(k)

\* the loop went on to the server at position k: its query was sent, or its
\* URL did not parse and the call ended there with InvalidEndpoint
Tried(k) ==
    /\ idx >= k
    /\ \/ Len(getLog) >= k
       \/ pc = "done" /\ idx = k /\ result.kind = "InvalidEndpoint"

\* the attempt at position i ended because the timer won the race
TimedOut(i) == i \in 1..Len(attempts) /\ i \in elapsed /\ attempts[i].http = 0

TimeoutIsConnectionFailure ==
    \A i \in 1..Len(servers) :
        TimedOut(i) =>
            /\ attempts[i].class = "Retryable"
            /\ attempts[i].err.kind = "Connection"
            /\ attempts[i].err.msg = <<"connection timeout after", servers[i].timeout>>
            /\ i \notin inflight
            /\ i < Len(servers) => Tried(i + 1)
            /\ i = Len(servers) =>
                    /\ pc = "done"
                    /\ result = ErrQuery(attempts[i].err)

\* a step in which a dropped request is answered
LateAnswerStep == abandoned' # abandoned /\ abandoned' \subseteq abandoned

\* C14: an attempt ended by the timer is a Connection failure with the
\* timeout message, its GET future is gone and the next server is tried (or
\* the call ends with that failure on the last server); a response to the
\* dropped request leaves the call and its result as they are, and a result
\* once returned never changes.
C14_TimeoutDropsGet ==
    /\ []TimeoutIsConnectionFailure
    /\ [][LateAnswerStep =>
            UNCHANGED <<call, pc, rtype, name, idx, error, getLog, inflight,
                        attempts, result>>]_vars
    /\ [][pc = "done" => (pc' = "done" /\ result' = result)]_vars

C14_Witness ==
    /\ Len(servers) = 2 /\ Len(attempts) = 2
    /\ TimedOut(1) /\ 1 \notin abandoned
    /\ attempts[2].class = "Success"
    /\ pc = "done" /\ result.tag = "Ok" /\ result.answers = <<AnswerA>>

\* ------------------------------------------------------- claims on the registry
UnknownName == <<"U", "N", "K", "N", "O", "W", "N">>

\* C13: rtype_to_name returns the name of the registry entry with that code
\* in upper case (15 gives "MX"), and "UNKNOWN" for a code in no entry
\* (999999); the codes of the registry are pairwise distinct, so the code of
\* every registered name maps back to that name.
C13_RtypeToName ==
    /\ \A i, j \in 1..Len(Rtypes) : i # j => Rtypes[i].num # Rtypes[j].num
    /\ named.done =>
        /\ code = 15 => named.name = <<"M", "X">>
        /\ code = 999999 => named.name = UnknownName
        /\ \A i \in 1..Len(Rtypes) :
                Rtypes[i].num = code =>
                    /\ Len(named.name) = Len(Rtypes[i].konst)
                    /\ \A c \in 1..Len(named.name) :
                            /\ named.name[c] = UpperChar(named.name[c])
                            /\ LowerChar(named.name[c]) = Rtypes[i].konst[c]
        /\ (\A i \in 1..Len(Rtypes) : Rtypes[i].num # code) => named.name = UnknownName

C13_Witness ==
    /\ named.done /\ code = 51
    /\ named.name = <<"N", "S", "E", "C", "3", "P", "A", "R", "A", "M">>

\* ------------------------------------------- claims on the classes of failure
\* the call ended on its latest attempt, at position i, with an error of kind
EndedWith(i, kind) ==
    /\ i = Len(attempts) /\ pc = "done"
    /\ result.tag = "Err" /\ result.variant = "Query" /\ result.kind = kind

\* what a retryable failure of kind at position i means for the call: the
\* next server is tried, and the call ends with that failure exactly when
\* position i is the last one
RetriedOrLast(i, kind) ==
    /\ attempts[i].class = "Retryable"
    /\ attempts[i].err.kind = kind
    /\ i < Len(servers) => (Tried(i + 1) /\ ~EndedWith(i, kind))
    /\ i = Len(servers) => EndedWith(i, kind)

\* C15: an attempt whose HTTP status is none of 200, 400, 413, 414, 415, 501,
\* 429, 500, 502, 504 is the retryable error Unknown: the next server is
\* tried, and the call fails with Unknown on it only on the last server.
C15_OtherStatusIsUnknown ==
    \A i \in 1..Len(attempts) :
        attempts[i].http \notin {0, 200, 400, 413, 414, 415, 501, 429, 500, 502, 504}
            => RetriedOrLast(i, "Unknown")

C15_Witness ==
    /\ Len(servers) = 2 /\ Len(attempts) = 2
    /\ attempts[1].http = 503 /\ attempts[2].http = 301
    /\ EndedWith(2, "Unknown") /\ Len(getLog) = 2

\* C16: after a 200 response a body that cannot be read is ReadResponse and a
\* body that does not decode as the envelope (not JSON, no Status, a Status
\* that is no u32) is ParseResponse; both are retryable.
C16_BodyFailuresAreRetryable ==
    \A i \in 1..Len(attempts) :
        /\ attempts[i].shape = "unreadable" =>
                (attempts[i].http = 200 /\ RetriedOrLast(i, "ReadResponse"))
        /\ attempts[i].shape \in {"notJson", "noStatus", "badStatus"} =>
                (attempts[i].http = 200 /\ RetriedOrLast(i, "ParseResponse"))

C16_Witness ==
    /\ Len(servers) = 2 /\ Len(attempts) = 2
    /\ attempts[1].shape = "noStatus" /\ attempts[2].shape = "unreadable"
    /\ EndedWith(2, "ReadResponse") /\ Len(getLog) = 2

\* C17: when the loop reaches a server whose query URI is malformed the call
\* has ended with InvalidEndpoint: neither that server nor a later one was
\* contacted, whatever the later endpoints are.
C17_MalformedUriEndsCall ==
    \A k \in 1..Len(servers) :
        (servers[k].uri = BrokenServer.uri /\ idx >= k) =>
            /\ idx = k /\ pc = "done"
            /\ result.tag = "Err" /\ result.variant = "Query"
            /\ result.kind = "InvalidEndpoint"
            /\ Len(getLog) = k - 1 /\ Len(attempts) = k - 1
            /\ inflight = {}

C17_Witness ==
    /\ servers = <<BrokenServer, GoogleServer>>
    /\ pc = "done" /\ result.kind = "InvalidEndpoint" /\ getLog = <<>>

\* the generic filter or the MX extraction keeps none of the answers
AllFilteredOut(answers) ==
    \A a \in 1..Len(answers) :
        IF call.op = "resolve_mx_and_sort" THEN ~IsRetainedMx(answers[a])
        ELSE rtype.code # 0 /\ answers[a].type # rtype.code

\* C20: the first attempt that returns 200 with a decodable body is the last
\* attempt of the call; with Status 0 the call succeeds, and with Answer
\* absent, empty or filtered out entirely it succeeds with no answers; no
\* later server is contacted.
C20_DecodedBodyEndsTraversal ==
    \A i \in 1..Len(attempts) :
        attempts[i].shape = "envelope" =>
            /\ attempts[i].class = "Success"
            /\ i = Len(attempts) /\ pc = "done" /\ Len(getLog) = i
            /\ attempts[i].res.Status = 0 =>
                /\ result.tag = "Ok"
                /\ (\/ ~attempts[i].res.Answer.some
                    \/ AllFilteredOut(attempts[i].res.Answer.val))
                   => result.answers = <<>>

C20_Witness ==
    /\ Len(servers) = 2 /\ UriParses(Url(servers[2], name, rtype))
    /\ Len(attempts) = 1 /\ attempts[1].shape = "envelope"
    /\ attempts[1].res.Status = 0 /\ ~attempts[1].res.Answer.some
    /\ result = Ok(<<>>) /\ Len(getLog) = 1

\* --------------------------------------------------- claims on the MX retention
\* The TTLs that mark the decoded answers to be retained: type 15 with data
\* "5 mx1", "10 mx2", "5 mx3 x", " 05<TAB>mx4", "4294967295 mx9", "+5 mx5".
\* Dropped are the other types (also with data "5 mx1") and type 15 with data
\* "7", "", "mx 5", "-1 mx", "4294967296 mx".
RetainedTTLs == {60, 61, 62, 63, 69, 70}

CountTTL(seq, ttl) == Cardinality({i \in 1..Len(seq) : seq[i].TTL = ttl})

\* C18: resolve_mx_and_sort returns one answer for each decoded answer of
\* type 15 whose first token parses as a u32 and that has a second token, and
\* none for any other; the Ok arm yields a sequence for every decoded list.
C18_MxRetention ==
    /\ MxAndSort(decoded) # {}
    /\ processed.by = "resolve_mx_and_sort" =>
        /\ KeptPositions(IsRetainedMx) =
                {i \in 1..Len(decoded) : decoded[i].TTL \in RetainedTTLs}
        /\ Len(processed.out) = Cardinality(KeptPositions(IsRetainedMx))
        /\ \A o \in 1..Len(processed.out) : processed.out[o].type = 15
        /\ \A a \in DecodedAnswers :
                CountTTL(processed.out, a.TTL) =
                    IF a.TTL \in RetainedTTLs THEN CountTTL(decoded, a.TTL) ELSE 0

C18_Witness ==
    /\ processed.by = "resolve_mx_and_sort" /\ Len(decoded) = 3
    /\ decoded[1].TTL = 10 /\ decoded[2].TTL = 67 /\ decoded[3].TTL = 70
    /\ Len(processed.out) = 1 /\ processed.out[1].TTL = 70
    /\ processed.out[1].data = <<"m", "x", "5">>

\* ------------------------------------------------------ claims on concurrent calls
\* every call of the resolver, polled or parked
AllLocals == [tasks EXCEPT ![current] = Locals]

\* The record type a call asks for and the wrapper around its client_request.
RtypeOfCall(c) ==
    IF c.op = "resolve_mx_and_sort" THEN RTYPE_mx
    ELSE IF c.op = "resolve" THEN RTYPE(IndexOfKonst(c.arg))
    ELSE RTYPE(StrTypeArm(c.arg))

\* A call run alone from server k on against the transport responses resp
\* (from position i on), holding error e after its last contact at position
\* last: where it stands, the servers it contacts and the results it may give.
RECURSIVE SoloLoop(_, _, _, _, _, _, _)
SoloLoop(c, nm, resp, k, last, e, i) ==
    LET rt == RtypeOfCall(c)
        Done(at, cr) == [pc |-> "done", idx |-> at, contacts |-> <<>>,
                         results |-> Wrapper(c.op, rt, cr), used |-> i - 1]
        Go(at, cr) == [Done(at, cr) EXCEPT !.contacts = <<k>>, !.used = i]
        On(qe) == LET r == SoloLoop(c, nm, resp, k + 1, k, qe, i + 1)
                  IN  [r EXCEPT !.contacts = <<k>> \o @]
    IN  IF k > Len(servers) THEN Done(last, CrErr(e))
        ELSE IF ~UriParses(Url(servers[k], nm, rt))
        THEN Done(k, CrErr(QueryError("InvalidEndpoint", <<servers[k].uri>>)))
        ELSE IF i > Len(resp)
        THEN [pc |-> "pending", idx |-> k, contacts |-> <<k>>, results |-> {},
              used |-> i - 1]
        ELSE IF resp[i].http = 0 THEN On(resp[i].err)
        ELSE IF resp[i].http = 200
        THEN IF resp[i].shape = "envelope" THEN Go(k, CrOk(resp[i].res))
             ELSE IF resp[i].shape = "unreadable"
             THEN On(QueryError("ReadResponse", <<"read error">>))
             ELSE On(QueryError("ParseResponse", <<"decode error">>))
        ELSE IF StatusClass(resp[i].http) = "Terminal"
        THEN Go(k, CrErr(StatusQueryError(resp[i].http)))
        ELSE On(StatusQueryError(resp[i].http))

Solo(c, resp) ==
    IF c = NoCall
    THEN [pc |-> "idle", idx |-> 0, contacts |-> <<>>, results |-> {}, used |-> 0]
    ELSE IF c.op = "resolve_str_type" /\ StrTypeArm(c.arg) = 0
    THEN [pc |-> "done", idx |-> 0, contacts |-> <<>>,
          results |-> {ErrInvalidRecordType}, used |-> 0]
    ELSE IF ~domain_to_ascii(c.domain).ok
    THEN [pc |-> "done", idx |-> 0, contacts |-> <<>>,
          results |-> {ErrQuery(QueryError("InvalidName", domain_to_ascii(c.domain).err))},
          used |-> 0]
    ELSE SoloLoop(c, domain_to_ascii(c.domain).name, resp, 1, 0,
                  QueryError("Unknown", NoMsg), 1)

\* The call with bindings l stands where it would stand had it run alone
\* against the responses it received.
AsIfAlone(l) ==
    LET s == Solo(l.call, l.attempts)
    IN  /\ [i \in 1..Len(l.getLog) |-> l.getLog[i].server] = s.contacts
        /\ \A i \in 1..Len(l.attempts) : l.attempts[i].server = s.contacts[i]
        /\ s.used = Len(l.attempts)
        /\ l.idx = s.idx
        /\ s.pc = "idle" => l = BlankLocals
        /\ s.pc = "pending" => l.pc \in {"awaitGet", "awaitBody"} /\ l.result = NoResult
        /\ s.pc = "done" => l.pc = "done" /\ l.result \in s.results

EveryCallAsIfAlone == \A c \in 1..MaxCalls : AsIfAlone(AllLocals[c])

\* C19: under every interleaving each call's result and contact order are
\* those of the call run alone against the responses it received; no step
\* changes the server list once built, a step of the polled call leaves the
\* parked calls as they are, and a switch leaves every call as it is.
C19_CallsAreIndependent ==
    /\ []EveryCallAsIfAlone
    /\ [][built = "ok" => UNCHANGED <<built, given, servers>>]_vars
    /\ [][current' = current => tasks' = tasks]_vars
    /\ [][current' # current => AllLocals' = AllLocals]_vars

\* Call 1 is parked at its second server while call 2 has run to its end on
\* the first server.
C19_Witness ==
    /\ current = 2
    /\ tasks[1].pc = "awaitGet" /\ tasks[1].idx = 2
    /\ tasks[1].call.op = "resolve" /\ Len(tasks[1].attempts) = 1
    /\ call.op = "resolve_mx_and_sort" /\ pc = "done"
    /\ result.tag = "Ok" /\ Len(getLog) = 1
====
